---- MODULE Spec2Model ----
(***************************************************************************)
(* Model of the indra_cogex graph-ETL write path (Processor.dump and the   *)
(* validation generators of sources/processor.py) and of the GO / ontology *)
(* lookups of client/queries.py.                                           *)
(*                                                                         *)
(* Python values are represented as follows.                               *)
(*   - a namespace, an identifier, a label or a property key is a TLA+     *)
(*     string; Python's str ordering on them is the table StrOrd;          *)
(*   - a string that the code builds or takes apart (a normalised id, the  *)
(*     joined labels, a relation type, a property value, a csv field) is a *)
(*     sequence of tokens, concatenation being \o; a relation type is      *)
(*     tokenised into its characters, because the code iterates over it;   *)
(*   - a cell of a row before csv rendering is PyStr(tokens) or PyNone.    *)
(***************************************************************************)
EXTENDS Integers, Sequences, FiniteSets, TLC

(* ---------------------------------------------------------------------- *)
(* Bounds of the model                                                     *)
(* ---------------------------------------------------------------------- *)
MaxStream == 2
MaxRows == 12

(* range(10) in the two sample loops *)
SampleSize == 10

(* ---------------------------------------------------------------------- *)
(* Python helpers                                                          *)
(* ---------------------------------------------------------------------- *)
StrOrd ==
    << "0001", "0002", "0003", "0004", "0005", "0006", "0007", "0008",
       "0009", "0010", "0011", "0012", "0013", "0014", "0015", "0016",
       "1100", "D001943", "HGNC", "MESH", "XX", "belief", "name", "score",
       "source" >>

Rank(s) == CHOOSE i \in DOMAIN StrOrd : StrOrd[i] = s

(* Python's tuple comparison a < b for two tuples of the same length *)
TupleLess(a, b) ==
    \E i \in DOMAIN a :
        /\ a[i] < b[i]
        /\ \A j \in 1..(i - 1) : a[j] = b[j]

(* sorted(seq, key=...): a stable sort; keys[i] is the key of seq[i] *)
sorted(seq, keys) ==
    LET n == Len(seq)
        place(i) == 1 + Cardinality({j \in 1..n :
                            \/ TupleLess(keys[j], keys[i])
                            \/ (keys[j] = keys[i] /\ j < i)})
    IN [p \in 1..n |-> seq[CHOOSE i \in 1..n : place(i) = p]]

(* sorted(set(keys)) for a set of property keys *)
RECURSIVE sorted_set(_)
sorted_set(S) ==
    IF S = {} THEN << >>
    ELSE LET m == CHOOSE x \in S : \A y \in S : Rank(x) <= Rank(y)
         IN <<m>> \o sorted_set(S \ {m})

PyNone == [kind |-> "None", s |-> << >>]
PyStr(tokens) == [kind |-> "str", s |-> tokens]

Digit == << "0", "1", "2", "3", "4", "5", "6", "7", "8", "9" >>

(* str(n) for a count *)
str(n) ==
    IF n < 10 THEN << Digit[n + 1] >>
    ELSE << Digit[(n \div 10) + 1], Digit[(n % 10) + 1] >>

(* sep.join(parts) for a list of plain strings *)
RECURSIVE join(_, _)
join(sep, parts) ==
    IF Len(parts) = 0 THEN << >>
    ELSE IF Len(parts) = 1 THEN << parts[1] >>
    ELSE << parts[1], sep >> \o join(sep, Tail(parts))

(* csv.writer: None is written as the empty string, a str as itself *)
csv_field(v) == IF v.kind = "None" THEN << >> ELSE v.s

writerow(row) == [i \in DOMAIN row |-> csv_field(row[i])]

(* ---------------------------------------------------------------------- *)
(* Node / Relation model                                                   *)
(* ---------------------------------------------------------------------- *)
Node(db_ns, db_id, labels, data) ==
    [db_ns |-> db_ns, db_id |-> db_id, labels |-> labels, data |-> data]

Relation(source_ns, source_id, target_ns, target_id, rel_type, data) ==
    [source_ns |-> source_ns, source_id |-> source_id,
     target_ns |-> target_ns, target_id |-> target_id,
     rel_type |-> rel_type, data |-> data]

norm_id(db_ns, db_id) == << db_ns, ":", db_id >>

NoData == << >>

(* ---------------------------------------------------------------------- *)
(* Identifier check of the validation stage                                *)
(* ---------------------------------------------------------------------- *)
LongIds == [i \in 1..16 |-> StrOrd[i]]

HgncIds == {"1100"} \cup {LongIds[i] : i \in DOMAIN LongIds}
MeshIds == {"D001943"}

(* outcome of assert_valid_db_refs({db_ns: db_id}): "ok" or the exception
   raised, an Exception subclass in either case *)
assert_valid_db_refs(db_ns, db_id) ==
    IF db_ns = "HGNC"
    THEN (IF db_id \in HgncIds THEN "ok" ELSE "InvalidIdentifier")
    ELSE IF db_ns = "MESH"
    THEN (IF db_id \in MeshIds THEN "ok" ELSE "InvalidIdentifier")
    ELSE "UnknownNamespace"

(* validate_nodes stopping at the first rejected node *)
RECURSIVE validate_nodes_break(_, _)
validate_nodes_break(nodes, idx) ==
    IF Len(nodes) = 0 THEN [out |-> << >>, log |-> << >>]
    ELSE LET node == Head(nodes)
             e == assert_valid_db_refs(node.db_ns, node.db_id)
             rest == validate_nodes_break(Tail(nodes), idx + 1)
         IN IF e = "ok"
            THEN [out |-> <<node>> \o rest.out, log |-> rest.log]
            ELSE [out |-> << >>, log |-> << [idx |-> idx, e |-> e] >>]

(* validate_nodes(nodes) from input index idx on: the nodes yielded and the
   rejections logged *)
RECURSIVE validate_nodes(_, _)
validate_nodes(nodes, idx) ==
    IF Len(nodes) = 0 THEN [out |-> << >>, log |-> << >>]
    ELSE LET node == Head(nodes)
             e == assert_valid_db_refs(node.db_ns, node.db_id)
             rest == validate_nodes(Tail(nodes), idx + 1)
         IN IF e = "ok"
            THEN [out |-> <<node>> \o rest.out, log |-> rest.log]
            ELSE [out |-> rest.out,
                  log |-> << [idx |-> idx, e |-> e] >> \o rest.log]

RECURSIVE validate_relations(_, _)
validate_relations(relations, idx) ==
    IF Len(relations) = 0 THEN [out |-> << >>, log |-> << >>]
    ELSE LET rel == Head(relations)
             es == assert_valid_db_refs(rel.source_ns, rel.source_id)
             e == IF es = "ok"
                  THEN assert_valid_db_refs(rel.target_ns, rel.target_id)
                  ELSE es
             rest == validate_relations(Tail(relations), idx + 1)
         IN IF e = "ok"
            THEN [out |-> <<rel>> \o rest.out, log |-> rest.log]
            ELSE [out |-> rest.out,
                  log |-> << [idx |-> idx, e |-> e] >> \o rest.log]

(* ---------------------------------------------------------------------- *)
(* Rows, headers and the edge counter                                      *)
(* ---------------------------------------------------------------------- *)
(* narrowed to the keys of the first item only *)
metadata_first(items) ==
    IF Len(items) = 0 THEN << >> ELSE sorted_set(DOMAIN items[1].data)

(* sorted(set(key for item in items for key in item.data)) *)
metadata_of(items) ==
    sorted_set(UNION {DOMAIN items[i].data : i \in DOMAIN items})

node_key(x) == << Rank(x.db_ns), Rank(x.db_id) >>

rel_key(r) ==
    << Rank(r.source_ns), Rank(r.source_id),
       Rank(r.target_ns), Rank(r.target_id) >>

(* sorting what validate_nodes lets through *)
sorted_valid_nodes(nodes) ==
    LET v == validate_nodes(nodes, 0).out
    IN sorted(v, [i \in DOMAIN v |-> node_key(v[i])])

sorted_nodes(nodes) == sorted(nodes, [i \in DOMAIN nodes |-> node_key(nodes[i])])

sorted_rels(rels) == sorted(rels, [i \in DOMAIN rels |-> rel_key(rels[i])])

(* one element of the generator node_rows *)
node_row(node, metadata) ==
    << PyStr(norm_id(node.db_ns, node.db_id)),
       PyStr(join(";", node.labels)) >>
    \o [j \in DOMAIN metadata |->
          IF metadata[j] \in DOMAIN node.data
          THEN PyStr(node.data[metadata[j]])
          ELSE PyStr(<< >>)]

(* one element of the generator edge_rows *)
edge_row(rel, metadata) ==
    << PyStr(norm_id(rel.source_ns, rel.source_id)),
       PyStr(norm_id(rel.target_ns, rel.target_id)),
       PyStr(rel.rel_type) >>
    \o [j \in DOMAIN metadata |->
          IF metadata[j] \in DOMAIN rel.data
          THEN PyStr(rel.data[metadata[j]])
          ELSE PyNone]

node_header(metadata) ==
    << <<"id:ID">>, <<":LABEL">> >> \o [j \in DOMAIN metadata |-> << metadata[j] >>]

edge_header(metadata) ==
    << <<":START_ID">>, <<":END_ID">>, <<":TYPE">> >>
    \o [j \in DOMAIN metadata |-> << metadata[j] >>]

summary_header == << <<"source_ns">>, <<"rel">>, <<"target_ns">>, <<"count">> >>

(* one step of zip(rows, range(10)): the generator is asked first, so the
   row taken when the range has ended is dropped *)
zip_next_rows_first(k, pos, n) ==
    IF pos >= n THEN [more |-> FALSE, k |-> k, pos |-> pos]
    ELSE IF k >= SampleSize THEN [more |-> FALSE, k |-> k, pos |-> pos + 1]
    ELSE [more |-> TRUE, k |-> k + 1, pos |-> pos + 1]

(* one step of zip(range(11), rows) *)
zip_next_11(k, pos, n) ==
    IF k >= SampleSize + 1 THEN [more |-> FALSE, k |-> k, pos |-> pos]
    ELSE IF pos >= n THEN [more |-> FALSE, k |-> k + 1, pos |-> pos]
    ELSE [more |-> TRUE, k |-> k + 1, pos |-> pos + 1]

(* one step of zip(range(10), rows): k values of the range and pos rows of
   the generator (of n rows) have been taken; the range is asked first *)
zip_next(k, pos, n) ==
    IF k >= SampleSize THEN [more |-> FALSE, k |-> k, pos |-> pos]
    ELSE IF pos >= n THEN [more |-> FALSE, k |-> k + 1, pos |-> pos]
    ELSE [more |-> TRUE, k |-> k + 1, pos |-> pos + 1]

(* counter[key] += 1 on a Counter kept in insertion order *)
counter_incr(c, key) ==
    IF \E i \in DOMAIN c : c[i].key = key
    THEN [i \in DOMAIN c |->
            IF c[i].key = key THEN [c[i] EXCEPT !.count = @ + 1] ELSE c[i]]
    ELSE Append(c, [key |-> key, count |-> 1])

(* Counter.most_common(): by descending count, ties in insertion order *)
most_common(c) == sorted(c, [i \in DOMAIN c |-> << 0 - c[i].count >>])

(* the fields of the line that print writes for a counter entry: row is
   unpacked element by element, then the count *)
summary_row(row, count) ==
    [i \in 1..(Len(row) + 1) |->
        IF i <= Len(row) THEN << row[i] >> ELSE str(count)]

(* ---------------------------------------------------------------------- *)
(* Adapter streams                                                         *)
(* ---------------------------------------------------------------------- *)
indra_rel == << "i", "n", "d", "r", "a", "_", "r", "e", "l" >>
isa == << "i", "s", "a" >>

NodeItems ==
    { Node("HGNC", "1100", <<"BioEntity">>, [name |-> <<"BRCA1">>]),
      Node("HGNC", "1100", <<"BioEntity", "Gene">>, NoData),
      Node("MESH", "D001943", <<"BioEntity">>, [score |-> <<"0.5">>]),
      Node("HGNC", "D001943", <<"BioEntity">>, [name |-> <<"x">>]) }

RelItems ==
    { Relation("HGNC", "1100", "MESH", "D001943", indra_rel, [belief |-> <<"0.9">>]),
      Relation("HGNC", "1100", "MESH", "D001943", isa, [source |-> <<"go">>]),
      Relation("MESH", "D001943", "HGNC", "1100", indra_rel, NoData),
      Relation("XX", "1100", "MESH", "D001943", indra_rel, NoData),
      Relation("HGNC", "1100", "MESH", "1100", isa, [belief |-> <<"0.1">>]) }

SeqsUpTo(S, n) == UNION {[1..m -> S] : m \in 0..n}

Strides == {1, 3}

(* a long stream of distinct valid genes, in an order fixed by the stride *)
LongNodes(n, stride) ==
    [i \in 1..n |->
        Node("HGNC", LongIds[((i * stride) % 17)], <<"BioEntity">>,
             IF i % 2 = 0 THEN [name |-> <<"g">>] ELSE NoData)]

LongRels(n, stride) ==
    [i \in 1..n |->
        Relation("HGNC", LongIds[((i * stride) % 17)], "MESH", "D001943",
                 IF i % 3 = 0 THEN isa ELSE indra_rel,
                 IF i % 2 = 0 THEN [belief |-> <<"0.9">>] ELSE NoData)]

(* ---------------------------------------------------------------------- *)
(* State                                                                   *)
(* ---------------------------------------------------------------------- *)
VARIABLES
    nodes_in,   \* what get_nodes() yields
    rels_in,    \* what get_relations() yields
    pc,         \* position of dump()
    run,        \* which run of dump() over these streams this is
    nodes,      \* _dump_nodes: nodes (sorted, returned and pickled)
    vnodes,     \* _dump_nodes_to_path: nodes (validated)
    vrels,      \* what validate_relations yields to sorted()
    rels,       \* _dump_edges: rels
    metadata,   \* metadata of the table being written
    k,          \* values taken from range(10)
    pos,        \* rows taken from node_rows / edge_rows
    counter,    \* _dump_edges: counter
    files,      \* the output directory
    log,        \* logger.info records of the validation generators
    ret,        \* what dump() returned
    store,      \* the loaded graph store: a set of edges
    call,       \* the query last called, with its arguments
    result,     \* what that query returned
    procs,      \* concurrent dump() runs: source name, streams, position
    disk,       \* the output files they share, by source name and file name
    db,         \* a DbProcessor instance and its get_relations() calls
    fix         \* a (namespace, id) pair and what fix_id has made of it

dump_vars == << nodes_in, rels_in, pc, run, nodes, vnodes, vrels, rels, metadata,
                k, pos, counter, files, log, ret >>

query_vars == << store, call, result >>

par_vars == << procs, disk >>

db_vars == << db, fix >>

vars == << dump_vars, query_vars, par_vars, db_vars >>

nodes_indra_path == "nodes.pkl"
nodes_path == "nodes.tsv.gz"
nodes_sample_path == "nodes_sample.tsv"
edges_path == "edges.tsv.gz"
edges_sample_path == "edges_sample.tsv"
edges_summary_path == "edges_summary.tsv"

Paths == { nodes_indra_path, nodes_path, nodes_sample_path,
           edges_path, edges_sample_path, edges_summary_path }

Absent == [state |-> "absent", rows |-> << >>]

(* open(path, "a"): what the file holds is kept and written after *)
open_a(fs, path, rows) ==
    [fs EXCEPT ![path] = [state |-> "open", rows |-> @.rows \o rows]]

(* open(path, "w"): the file is created or truncated, then written to *)
open_w(fs, path, rows) == [fs EXCEPT ![path] = [state |-> "open", rows |-> rows]]

write(fs, path, row) == [fs EXCEPT ![path].rows = Append(@, row)]

close(fs, path) == [fs EXCEPT ![path].state = "closed"]

DumpInit ==
    /\ \/ /\ nodes_in \in SeqsUpTo(NodeItems, MaxStream)
          /\ rels_in \in SeqsUpTo(RelItems, MaxStream)
       \/ \E n \in 0..MaxRows, m \in 0..MaxRows, stride \in Strides :
            /\ nodes_in = LongNodes(n, stride)
            /\ rels_in = LongRels(m, stride)
    /\ pc = "start"
    /\ run = "first"
    /\ nodes = << >>
    /\ vnodes = << >>
    /\ vrels = << >>
    /\ rels = << >>
    /\ metadata = << >>
    /\ k = 0
    /\ pos = 0
    /\ counter = << >>
    /\ files = [p \in Paths |-> Absent]
    /\ log = << >>
    /\ ret = [nodes |-> << >>, counter |-> << >>]

NoCall == [fn |-> "none", arg |-> << "", "" >>, include_indirect |-> FALSE]

QueryIdle ==
    /\ store = {}
    /\ call = NoCall
    /\ result = << >>

ParIdle ==
    /\ procs = << >>
    /\ disk = << >>

FixIdle == fix = << >>

DbIdle == db = << >> /\ FixIdle

(* ---------------------------------------------------------------------- *)
(* Processor.dump(), step by step                                          *)
(* ---------------------------------------------------------------------- *)
(* _dump_nodes: nodes = sorted(self.get_nodes(), key=...) *)
GetNodes ==
    /\ pc = "start"
    /\ nodes' = sorted_nodes(nodes_in)
    /\ pc' = "pickle_open"
    /\ UNCHANGED << query_vars, par_vars, db_vars, run, nodes_in, rels_in, vnodes, vrels, rels, metadata, k, pos,
                    counter, files, log, ret >>

(* open(self.nodes_indra_path, "wb") *)
PickleOpen ==
    /\ pc = "pickle_open"
    /\ files' = open_w(files, nodes_indra_path, << >>)
    /\ pc' = "pickle_dump"
    /\ UNCHANGED << query_vars, par_vars, db_vars, run, nodes_in, rels_in, nodes, vnodes, vrels, rels, metadata,
                    k, pos, counter, log, ret >>

(* pickle.dump(nodes, fh) and the end of the with block *)
PickleDump ==
    /\ pc = "pickle_dump"
    /\ files' = close(write(files, nodes_indra_path, nodes), nodes_indra_path)
    /\ pc' = "validate_nodes"
    /\ UNCHANGED << query_vars, par_vars, db_vars, run, nodes_in, rels_in, nodes, vnodes, vrels, rels, metadata,
                    k, pos, counter, log, ret >>

(* _dump_nodes_to_path: nodes = list(validate_nodes(nodes)); metadata = ... *)
ValidateNodes ==
    /\ pc = "validate_nodes"
    /\ LET v == validate_nodes(nodes, 0)
       IN /\ vnodes' = v.out
          /\ log' = log \o v.log
          /\ metadata' = metadata_of(v.out)
    /\ k' = 0
    /\ pos' = 0
    /\ pc' = "nodes_open"
    /\ UNCHANGED << query_vars, par_vars, db_vars, run, nodes_in, rels_in, nodes, vrels, rels, counter, files, ret >>

(* gzip.open(nodes_path, mode="wt"); node_writer.writerow(header) *)
NodesOpen ==
    /\ pc = "nodes_open"
    /\ files' = open_w(files, nodes_path, << node_header(metadata) >>)
    /\ pc' = "nodes_sample_open"
    /\ UNCHANGED << query_vars, par_vars, db_vars, run, nodes_in, rels_in, nodes, vnodes, vrels, rels, metadata,
                    k, pos, counter, log, ret >>

(* sample_path.open("w"); node_sample_writer.writerow(header) *)
NodesSampleOpen ==
    /\ pc = "nodes_sample_open"
    /\ files' = open_w(files, nodes_sample_path, << node_header(metadata) >>)
    /\ pc' = "nodes_sample"
    /\ UNCHANGED << query_vars, par_vars, db_vars, run, nodes_in, rels_in, nodes, vnodes, vrels, rels, metadata,
                    k, pos, counter, log, ret >>

(* one pass of: for _, node_row in zip(range(10), node_rows) *)
NodesSampleStep ==
    /\ pc = "nodes_sample"
    /\ LET z == zip_next(k, pos, Len(vnodes))
       IN /\ k' = z.k
          /\ pos' = z.pos
          /\ IF z.more
             THEN LET row == writerow(node_row(vnodes[z.pos], metadata))
                  IN /\ files' = write(write(files, nodes_sample_path, row),
                                       nodes_path, row)
                     /\ pc' = pc
             ELSE /\ files' = close(files, nodes_sample_path)
                  /\ pc' = "nodes_rest"
    /\ UNCHANGED << query_vars, par_vars, db_vars, run, nodes_in, rels_in, nodes, vnodes, vrels, rels, metadata,
                    counter, log, ret >>

(* a writerows that writes none of the remaining rows *)
writerows_none(rows, items, md) == rows

(* the rows that node_writer.writerows(node_rows) writes after rows *)
RECURSIVE writerows(_, _, _)
writerows(rows, items, md) ==
    IF Len(items) = 0 THEN rows
    ELSE writerows(Append(rows, writerow(node_row(Head(items), md))),
                   Tail(items), md)

(* node_writer.writerows(node_rows) and the end of the with block *)
NodesRest ==
    /\ pc = "nodes_rest"
    /\ files' = close([files EXCEPT ![nodes_path].rows =
                          writerows(@, SubSeq(vnodes, pos + 1, Len(vnodes)),
                                    metadata)],
                      nodes_path)
    /\ pos' = Len(vnodes)
    /\ pc' = "get_relations"
    /\ UNCHANGED << query_vars, par_vars, db_vars, run, nodes_in, rels_in, nodes, vnodes, vrels, rels, metadata,
                    k, counter, log, ret >>

(* _dump_edges: rels = sorted(validate_relations(self.get_relations()), ...);
   metadata = ...; counter = Counter() *)
GetRelations ==
    /\ pc = "get_relations"
    /\ LET v == validate_relations(rels_in, 0)
       IN /\ vrels' = v.out
          /\ log' = log \o v.log
          /\ rels' = sorted_rels(v.out)
          /\ metadata' = metadata_of(v.out)
    /\ counter' = << >>
    /\ k' = 0
    /\ pos' = 0
    /\ pc' = "edges_open"
    /\ UNCHANGED << query_vars, par_vars, db_vars, run, nodes_in, rels_in, nodes, vnodes, files, ret >>

(* gzip.open(self.edges_path, "wt") *)
EdgesOpen ==
    /\ pc = "edges_open"
    /\ files' = open_w(files, edges_path, << >>)
    /\ pc' = "edges_sample_open"
    /\ UNCHANGED << query_vars, par_vars, db_vars, run, nodes_in, rels_in, nodes, vnodes, vrels, rels, metadata,
                    k, pos, counter, log, ret >>

(* sample_path.open("w"); the header goes to the sample, then to the table *)
EdgesSampleOpen ==
    /\ pc = "edges_sample_open"
    /\ files' = write(open_w(files, edges_sample_path,
                             << edge_header(metadata) >>),
                      edges_path, edge_header(metadata))
    /\ pc' = "edges_sample"
    /\ UNCHANGED << query_vars, par_vars, db_vars, run, nodes_in, rels_in, nodes, vnodes, vrels, rels, metadata,
                    k, pos, counter, log, ret >>

(* one pass of: for _, edge_row in zip(range(10), edge_rows) *)
EdgesSampleStep ==
    /\ pc = "edges_sample"
    /\ LET z == zip_next(k, pos, Len(rels))
       IN /\ k' = z.k
          /\ pos' = z.pos
          /\ IF z.more
             THEN LET raw == edge_row(rels[z.pos], metadata)
                      row == writerow(raw)
                  IN /\ files' = write(write(files, edges_sample_path, row),
                                       edges_path, row)
                     /\ counter' = counter_incr(counter, raw[3].s)
                     /\ pc' = pc
             ELSE /\ files' = close(files, edges_sample_path)
                  /\ counter' = counter
                  /\ pc' = "edges_rest"
    /\ UNCHANGED << query_vars, par_vars, db_vars, run, nodes_in, rels_in, nodes, vnodes, vrels, rels, metadata,
                    log, ret >>

(* one pass of: for edge_row in edge_rows, and the end of the with block *)
EdgesRestStep ==
    /\ pc = "edges_rest"
    /\ IF pos < Len(rels)
       THEN LET raw == edge_row(rels[pos + 1], metadata)
            IN /\ files' = write(files, edges_path, writerow(raw))
               /\ counter' = counter_incr(counter, raw[3].s)
               /\ pos' = pos + 1
               /\ pc' = pc
       ELSE /\ files' = close(files, edges_path)
            /\ counter' = counter
            /\ pos' = pos
            /\ pc' = "summary_open"
    /\ UNCHANGED << query_vars, par_vars, db_vars, run, nodes_in, rels_in, nodes, vnodes, vrels, rels, metadata,
                    k, log, ret >>

(* self.edges_summary_path.open("w"); the header line *)
SummaryOpen ==
    /\ pc = "summary_open"
    /\ files' = open_w(files, edges_summary_path, << summary_header >>)
    /\ pc' = "summary_rows"
    /\ UNCHANGED << query_vars, par_vars, db_vars, run, nodes_in, rels_in, nodes, vnodes, vrels, rels, metadata,
                    k, pos, counter, log, ret >>

(* for row, count in counter.most_common(): print(...); dump() returns *)
SummaryRows ==
    /\ pc = "summary_rows"
    /\ LET mc == most_common(counter)
       IN files' = close([files EXCEPT ![edges_summary_path].rows =
                            @ \o [i \in DOMAIN mc |->
                                    summary_row(mc[i].key, mc[i].count)]],
                         edges_summary_path)
    /\ ret' = [nodes |-> nodes, counter |-> counter]
    /\ pc' = "done"
    /\ UNCHANGED << query_vars, par_vars, db_vars, run, nodes_in, rels_in, nodes, vnodes, vrels, rels, metadata,
                    k, pos, counter, log >>

(* dump() is called again on the same adapter once it has returned: the
   files of the first run are still in place *)
Rerun ==
    /\ pc = "done"
    /\ run = "first"
    /\ run' = "second"
    /\ pc' = "start"
    /\ nodes' = << >>
    /\ vnodes' = << >>
    /\ vrels' = << >>
    /\ rels' = << >>
    /\ metadata' = << >>
    /\ k' = 0
    /\ pos' = 0
    /\ counter' = << >>
    /\ log' = << >>
    /\ ret' = [nodes |-> << >>, counter |-> << >>]
    /\ UNCHANGED << query_vars, par_vars, db_vars, nodes_in, rels_in, files >>

WritePcs ==
    { "pickle_open", "pickle_dump", "nodes_open", "nodes_sample_open",
      "nodes_sample", "nodes_rest", "edges_open", "edges_sample_open",
      "edges_sample", "edges_rest", "summary_open", "summary_rows" }

(* an open or a write raises OSError, or the process is interrupted: the
   exception leaves dump(); the with blocks close what is open *)
IOFailure ==
    /\ pc \in WritePcs
    /\ files' = [p \in Paths |->
                    IF files[p].state = "open"
                    THEN [files[p] EXCEPT !.state = "closed"] ELSE files[p]]
    /\ pc' = "failed"
    /\ UNCHANGED << query_vars, par_vars, db_vars, run, nodes_in, rels_in, nodes, vnodes, vrels, rels, metadata,
                    k, pos, counter, log, ret >>

Next ==
    \/ GetNodes
    \/ PickleOpen
    \/ PickleDump
    \/ ValidateNodes
    \/ NodesOpen
    \/ NodesSampleOpen
    \/ NodesSampleStep
    \/ NodesRest
    \/ GetRelations
    \/ EdgesOpen
    \/ EdgesSampleOpen
    \/ EdgesSampleStep
    \/ EdgesRestStep
    \/ SummaryOpen
    \/ SummaryRows
    \/ Rerun
    \/ IOFailure

Init == DumpInit /\ QueryIdle /\ ParIdle /\ DbIdle

Spec == Init /\ [][Next]_vars

(* ---------------------------------------------------------------------- *)
(* Properties of the write path                                            *)
(* ---------------------------------------------------------------------- *)
Min(a, b) == IF a < b THEN a ELSE b

DataRows(path) == Tail(files[path].rows)

NodeOk(n) == assert_valid_db_refs(n.db_ns, n.db_id) = "ok"

RelOk(r) ==
    /\ assert_valid_db_refs(r.source_ns, r.source_id) = "ok"
    /\ assert_valid_db_refs(r.target_ns, r.target_id) = "ok"

NodesWritten == pc \in { "get_relations", "edges_open", "edges_sample_open",
                         "edges_sample", "edges_rest", "summary_open",
                         "summary_rows", "done" }

RelsValidated == pc \in { "edges_open", "edges_sample_open", "edges_sample",
                          "edges_rest", "summary_open", "summary_rows", "done" }

NodesValidated ==
    pc \in { "nodes_open", "nodes_sample_open", "nodes_sample", "nodes_rest" }
    \/ NodesWritten

(* the input indices, counted from 0, of the items that fail Ok *)
RejectedIdx(seq, Ok(_)) ==
    LET Bad(j) == ~Ok(seq[j + 1])
    IN SelectSeq([i \in 1..Len(seq) |-> i - 1], Bad)

LogIdx(l) == [i \in DOMAIN l |-> l[i].idx]

(* seq with the items at i and i + 1 exchanged *)
SwapAdjacent(seq, i) ==
    [j \in DOMAIN seq |->
        IF j = i THEN seq[i + 1] ELSE IF j = i + 1 THEN seq[i] ELSE seq[j]]

(* the node table and the edge table that a dump writes for a stream *)
NodeTableOf(stream) ==
    LET v == validate_nodes(sorted_nodes(stream), 0).out
        md == metadata_of(v)
    IN << node_header(md) >> \o [i \in DOMAIN v |-> writerow(node_row(v[i], md))]

EdgeTableOf(stream) ==
    LET v == sorted_rels(validate_relations(stream, 0).out)
        md == metadata_of(v)
    IN << edge_header(md) >> \o [i \in DOMAIN v |-> writerow(edge_row(v[i], md))]

RECURSIVE CountTypes(_, _)
CountTypes(rs, c) ==
    IF Len(rs) = 0 THEN c
    ELSE CountTypes(Tail(rs), counter_incr(c, Head(rs).rel_type))

SummaryOf(stream) ==
    LET mc == most_common(CountTypes(sorted_rels(validate_relations(stream, 0).out),
                                     << >>))
    IN << summary_header >>
       \o [i \in DOMAIN mc |-> summary_row(mc[i].key, mc[i].count)]

SampleOf(table) == SubSeq(table, 1, Min(Len(table), 1 + SampleSize))

(* the output directory after a dump that ran to its end *)
CompleteFiles ==
    [p \in Paths |->
        [state |-> "closed",
         rows |->
            IF p = nodes_indra_path THEN << sorted_nodes(nodes_in) >>
            ELSE IF p = nodes_path THEN NodeTableOf(nodes_in)
            ELSE IF p = nodes_sample_path THEN SampleOf(NodeTableOf(nodes_in))
            ELSE IF p = edges_path THEN EdgeTableOf(rels_in)
            ELSE IF p = edges_sample_path THEN SampleOf(EdgeTableOf(rels_in))
            ELSE SummaryOf(rels_in)]]

(* C1: every node identity that passes validation and that get_nodes()
   yields more than once has exactly one row in the written node table.
   (Stated as claimed; the code writes one row per yielded node.) *)
C1_DedupOneRowPerIdentity ==
    pc = "done" =>
        \A i \in DOMAIN nodes_in :
            LET n == nodes_in[i]
                same == {j \in DOMAIN nodes_in :
                            /\ nodes_in[j].db_ns = n.db_ns
                            /\ nodes_in[j].db_id = n.db_id}
                rows == DataRows(nodes_path)
            IN (NodeOk(n) /\ Cardinality(same) > 1) =>
                  Cardinality({r \in DOMAIN rows :
                                 rows[r][1] = norm_id(n.db_ns, n.db_id)}) = 1

(* C2: the node table and the edge table that dump() wrote are the ones it
   writes for every reordering of the same streams (it is enough to exchange
   two neighbours: every permutation is a chain of such exchanges).
   (Stated as claimed; items with equal sort keys keep their input order.) *)
C2_DeterminismUnderReordering ==
    pc = "done" =>
        /\ \A i \in 1..(Len(nodes_in) - 1) :
              NodeTableOf(SwapAdjacent(nodes_in, i)) = files[nodes_path].rows
        /\ \A i \in 1..(Len(rels_in) - 1) :
              EdgeTableOf(SwapAdjacent(rels_in, i)) = files[edges_path].rows

(* C3: the summary has one row per distinct (source namespace, relation
   type, target namespace) of the written relations, with the four fields
   source_ns, rel, target_ns, count, and the returned counter has one entry
   per such triple.
   (Stated as claimed; the code counts by edge_row[2], the relation type.) *)
C3_SummaryPerTriple ==
    pc = "done" =>
        LET triples == {<< rels[i].source_ns, rels[i].rel_type, rels[i].target_ns >> :
                           i \in DOMAIN rels}
            n(t) == Cardinality({i \in DOMAIN rels :
                        << rels[i].source_ns, rels[i].rel_type,
                           rels[i].target_ns >> = t})
            rows == DataRows(edges_summary_path)
        IN /\ Len(ret.counter) = Cardinality(triples)
           /\ Len(rows) = Cardinality(triples)
           /\ \A r \in DOMAIN rows : Len(rows[r]) = 4
           /\ \A t \in triples :
                 \E r \in DOMAIN rows :
                    rows[r] = << <<t[1]>>, t[2], <<t[3]>>, str(n(t)) >>

(* C4: after dump() every :START_ID and :END_ID of the edge table is the
   id:ID of a row of the node table of the same dump.
   (Stated as claimed; the code never compares the two tables.) *)
C4_ReferentialCompleteness ==
    pc = "done" =>
        LET ids == {DataRows(nodes_path)[i][1] : i \in DOMAIN DataRows(nodes_path)}
            edges == DataRows(edges_path)
        IN \A r \in DOMAIN edges : edges[r][1] \in ids /\ edges[r][2] \in ids

(* C5: when dump() has failed, the output paths hold nothing new or the
   complete result of a successful dump.
   (Stated as claimed; the code writes in place at the final paths.) *)
C5_NoPartialFilesPublished ==
    pc = "failed" =>
        \/ \A p \in Paths : files[p] = Absent
        \/ files = CompleteFiles

(* C6: validate_nodes yields exactly the nodes whose check does not raise and
   validate_relations exactly the relations whose two checks do not raise, in
   input order; every rejected item is logged with its input index and the
   items after it are still processed. *)
C6_ValidationNeverAborts ==
    /\ (NodesValidated \/ (run = "first" /\ files[nodes_path].state # "absent")) =>
          /\ vnodes = SelectSeq(nodes, NodeOk)
          /\ Len(log) >= Len(RejectedIdx(nodes, NodeOk))
          /\ SubSeq(LogIdx(log), 1, Len(RejectedIdx(nodes, NodeOk)))
               = RejectedIdx(nodes, NodeOk)
    /\ (RelsValidated \/ (run = "first" /\ files[edges_path].state # "absent")) =>
          /\ vrels = SelectSeq(rels_in, RelOk)
          /\ LogIdx(log) = RejectedIdx(nodes, NodeOk) \o RejectedIdx(rels_in, RelOk)

(* C6 witness: a dump in which a rejected node and a rejected relation are
   each followed by an item that passes *)
C6_Witness ==
    /\ pc = "done"
    /\ \E i, j \in DOMAIN nodes : i < j /\ ~NodeOk(nodes[i]) /\ NodeOk(nodes[j])
    /\ \E i, j \in DOMAIN rels_in :
          i < j /\ ~RelOk(rels_in[i]) /\ RelOk(rels_in[j])
    /\ Len(vnodes) > 0
    /\ Len(vrels) > 0

(* the header is fixed, followed by the keys of items in ascending order *)
HeaderIs(header, fixed, items) ==
    LET keys == UNION {DOMAIN items[i].data : i \in DOMAIN items}
        m == Len(fixed)
    IN /\ Len(header) = m + Cardinality(keys)
       /\ SubSeq(header, 1, m) = fixed
       /\ {header[j][1] : j \in (m + 1)..Len(header)} = keys
       /\ \A j \in (m + 1)..Len(header) : Len(header[j]) = 1
       /\ \A i, j \in (m + 1)..Len(header) :
             i < j => Rank(header[i][1]) < Rank(header[j][1])

(* the fields of row from column m + 1 on hold the item's properties *)
PropertiesAre(row, header, m, item) ==
    /\ Len(row) = Len(header)
    /\ \A j \in (m + 1)..Len(header) :
          row[j] = IF header[j][1] \in DOMAIN item.data
                   THEN item.data[header[j][1]] ELSE << >>

(* field is the labels with ";" between them *)
LabelsJoined(field, labels) ==
    /\ Len(field) = IF Len(labels) = 0 THEN 0 ELSE 2 * Len(labels) - 1
    /\ \A i \in DOMAIN labels : field[2 * i - 1] = labels[i]
    /\ \A i \in 1..(Len(labels) - 1) : field[2 * i] = ";"

(* C7: the node table is the header id:ID, :LABEL and the sorted union of the
   property keys of the nodes written, then one row per node with as many
   fields as the header, each property under its key and an empty field
   under a key the node lacks, the labels joined by ";"; likewise the edge
   table with :START_ID, :END_ID, :TYPE. *)
C7_TableSchema ==
    /\ NodesWritten =>
          LET t == files[nodes_path].rows
          IN /\ Len(t) = 1 + Len(vnodes)
             /\ HeaderIs(t[1], << <<"id:ID">>, <<":LABEL">> >>, vnodes)
             /\ \A i \in DOMAIN vnodes :
                   /\ PropertiesAre(t[i + 1], t[1], 2, vnodes[i])
                   /\ t[i + 1][1] = << vnodes[i].db_ns, ":", vnodes[i].db_id >>
                   /\ LabelsJoined(t[i + 1][2], vnodes[i].labels)
    /\ pc \in {"summary_open", "summary_rows", "done"} =>
          LET t == files[edges_path].rows
          IN /\ Len(t) = 1 + Len(rels)
             /\ HeaderIs(t[1], << <<":START_ID">>, <<":END_ID">>, <<":TYPE">> >>, rels)
             /\ \A i \in DOMAIN rels :
                   /\ PropertiesAre(t[i + 1], t[1], 3, rels[i])
                   /\ t[i + 1][1] = << rels[i].source_ns, ":", rels[i].source_id >>
                   /\ t[i + 1][2] = << rels[i].target_ns, ":", rels[i].target_id >>
                   /\ t[i + 1][3] = rels[i].rel_type

(* C7 witness: both tables written with two property columns each, so that
   every row has a field for a key its item lacks, and a node with two
   labels or more than one row *)
C7_Witness ==
    /\ pc = "done"
    /\ Len(files[nodes_path].rows) = 3
    /\ Len(files[nodes_path].rows[1]) = 4
    /\ Len(files[edges_path].rows) = 3
    /\ Len(files[edges_path].rows[1]) = 5

(* C8: once a table is written, its sample file is the header and the first
   min(10, N) of the N data rows of the table, in the same order. *)
C8_SampleIsPrefix ==
    /\ NodesWritten =>
          files[nodes_sample_path].rows =
              SubSeq(files[nodes_path].rows, 1,
                     1 + Min(SampleSize, Len(files[nodes_path].rows) - 1))
    /\ pc \in {"summary_open", "summary_rows", "done"} =>
          files[edges_sample_path].rows =
              SubSeq(files[edges_path].rows, 1,
                     1 + Min(SampleSize, Len(files[edges_path].rows) - 1))

(* C8 witness: a dump whose node table and edge table both have more than
   ten data rows *)
C8_Witness ==
    /\ pc = "done"
    /\ Len(files[nodes_path].rows) - 1 > SampleSize
    /\ Len(files[edges_path].rows) - 1 > SampleSize
    /\ Len(files[nodes_sample_path].rows) = 1 + SampleSize
    /\ Len(files[edges_sample_path].rows) = 1 + SampleSize

(* C13: every run of dump() over the same two streams, the first one and
   the one that finds the files of the first in place, ends with the same
   node table, edge table, sample files, summary and pickle (those that the
   streams alone determine) and returns the same value. *)
C13_Idempotence ==
    pc = "done" =>
        /\ files = CompleteFiles
        /\ ret = [nodes |-> sorted_nodes(nodes_in),
                  counter |-> CountTypes(
                      sorted_rels(validate_relations(rels_in, 0).out), << >>)]

(* C13 witness: a second run has ended over files that the first run left
   with data rows in both tables *)
C13_Witness ==
    /\ run = "second"
    /\ pc = "done"
    /\ Len(files[nodes_path].rows) > 2
    /\ Len(files[edges_path].rows) > 2
    /\ Len(files[edges_summary_path].rows) > 1

(* C15: every item that takes part in the ordering step has passed
   validation, for the node stream and for the relation stream alike.
   (Stated as claimed; _dump_nodes sorts what get_nodes() yields and
   validates the sorted list afterwards.) *)
C15_ValidatedBeforeSorted ==
    /\ \A i \in DOMAIN nodes : NodeOk(nodes[i])
    /\ \A i \in DOMAIN rels : RelOk(rels[i])

NodeWritePcs == { "nodes_open", "nodes_sample_open", "nodes_sample",
                  "nodes_rest" }

EdgeWritePcs == { "edges_open", "edges_sample_open", "edges_sample",
                  "edges_rest" }

(* C16: a step that changes the node table or its sample is taken when the
   whole of get_nodes() has been taken into the sorted list; a step that
   changes the edge table or its sample is taken when the whole of
   get_relations() has gone through validation and sorting; and the step
   that calls get_relations() is taken when the node table is closed and
   holds all its rows. *)
C16_BufferingBarrier ==
    [][ /\ (\/ files'[nodes_path] # files[nodes_path]
            \/ files'[nodes_sample_path] # files[nodes_sample_path]) =>
              /\ pc \in NodeWritePcs
              /\ Len(nodes) = Len(nodes_in)
              /\ Len(vnodes) = Len(SelectSeq(nodes_in, NodeOk))
        /\ (\/ files'[edges_path] # files[edges_path]
            \/ files'[edges_sample_path] # files[edges_sample_path]) =>
              /\ pc \in EdgeWritePcs
              /\ Len(vrels) = Len(SelectSeq(rels_in, RelOk))
              /\ Len(rels) = Len(vrels)
        /\ (vrels' # vrels \/ (pc = "get_relations" /\ pc' # pc)) =>
              \/ pc = "done"
              \/ /\ pc = "get_relations"
                 /\ files[nodes_path].state = "closed"
                 /\ Len(files[nodes_path].rows)
                      = 1 + Len(SelectSeq(nodes_in, NodeOk))
                 /\ files[nodes_sample_path].state = "closed"
      ]_vars

(* C16 witness: the edge table is being written after a node table of more
   rows than the sample holds *)
C16_Witness ==
    /\ pc = "edges_rest"
    /\ Len(files[nodes_path].rows) > 1 + SampleSize
    /\ Len(files[edges_path].rows) > 1 + SampleSize
    /\ files[edges_path].state = "open"

(* C18: the list that dump() returns is the list pickled to nodes.pkl; it
   holds every node of get_nodes(), rejected ones included, in ascending
   (namespace, id) order; the rows of the node table are those of its nodes
   that pass validation, in the same order; the two have the same length
   exactly when no node is rejected. *)
C18_ReturnedNodesUnvalidated ==
    pc = "done" =>
        LET kept == SelectSeq(ret.nodes, NodeOk)
            rows == DataRows(nodes_path)
            Count(seq, x) == Cardinality({i \in DOMAIN seq : seq[i] = x})
        IN /\ files[nodes_indra_path].rows = << ret.nodes >>
           /\ Len(ret.nodes) = Len(nodes_in)
           /\ \A i \in DOMAIN nodes_in :
                 Count(ret.nodes, nodes_in[i]) = Count(nodes_in, nodes_in[i])
           /\ \A i, j \in DOMAIN ret.nodes :
                 i < j => ~TupleLess(node_key(ret.nodes[j]),
                                     node_key(ret.nodes[i]))
           /\ Len(rows) = Len(kept)
           /\ \A i \in DOMAIN kept :
                 rows[i][1] = norm_id(kept[i].db_ns, kept[i].db_id)
           /\ (Len(rows) = Len(ret.nodes)) <=>
                 (\A i \in DOMAIN nodes_in : NodeOk(nodes_in[i]))

(* C18 witness: a dump that returned more nodes than its node table has
   rows, the table not being empty *)
C18_Witness ==
    /\ pc = "done"
    /\ Len(DataRows(nodes_path)) > 0
    /\ Len(ret.nodes) > Len(DataRows(nodes_path))
    /\ \E i \in DOMAIN ret.nodes : ~NodeOk(ret.nodes[i])

RECURSIVE SumCounts(_)
SumCounts(c) == IF Len(c) = 0 THEN 0 ELSE Head(c).count + SumCounts(Tail(c))

(* C19: the node table holds one row for every node that passes validation,
   in sorted order, none missing and none twice, whether there are fewer
   than ten, ten or more than ten of them; likewise the edge table; and the
   counts that _dump_edges returns add up to the number of data rows of the
   edge table. *)
C19_NoRowLostAtSampleBoundary ==
    pc = "done" =>
        LET v == SelectSeq(sorted_nodes(nodes_in), NodeOk)
            r == sorted_rels(SelectSeq(rels_in, RelOk))
            nt == DataRows(nodes_path)
            et == DataRows(edges_path)
        IN /\ Len(nt) = Len(v)
           /\ \A i \in DOMAIN v :
                 nt[i] = writerow(node_row(v[i], metadata_of(v)))
           /\ Len(et) = Len(r)
           /\ \A i \in DOMAIN r :
                 et[i] = writerow(edge_row(r[i], metadata_of(r)))
           /\ SumCounts(ret.counter) = Len(et)

(* C19 witness: a dump with one node more than the sample holds and exactly
   as many relations as the sample holds *)
C19_Witness ==
    /\ pc = "done"
    /\ Len(DataRows(nodes_path)) = SampleSize + 1
    /\ Len(DataRows(edges_path)) = SampleSize
    /\ SumCounts(ret.counter) = SampleSize

(* ---------------------------------------------------------------------- *)
(* The loaded graph store and the Neo4j client                             *)
(* ---------------------------------------------------------------------- *)
MaxEdges == 3

Genes == { << "HGNC", "1100" >>, << "HGNC", "6407" >> }
GoTerms == { << "GO", "0000001" >>, << "GO", "0000002" >>, << "GO", "0000003" >> }
Pathways == { << "WIKIPATHWAYS", "WP1" >> }

(* the order in which the store lists nodes *)
IdentOrd ==
    << << "GO", "0000001" >>, << "GO", "0000002" >>, << "GO", "0000003" >>,
       << "HGNC", "1100" >>, << "HGNC", "6407" >>,
       << "WIKIPATHWAYS", "WP1" >> >>

Edge(s, rel, t) == [source |-> s, rel |-> rel, target |-> t]

EdgeUniverse ==
    { Edge(g, "associated_with", t) : g \in Genes, t \in GoTerms }
    \cup { e \in { Edge(a, rel, b) : a \in GoTerms, b \in GoTerms,
                                     rel \in {"isa", "partof"} } :
               e.source # e.target }
    \cup { Edge(p, "haspart", g) : p \in Pathways, g \in Genes }
    \cup { Edge(g, "haspart", p) : p \in Pathways, g \in Genes }

Stores == { st \in SUBSET EdgeUniverse : Cardinality(st) <= MaxEdges }

(* a (namespace, id) tuple passed to a query *)
PyTuple(ident) == [type |-> "tuple", grounding |-> ident, made_by |-> NoCall]

(* a Node object that the client built while answering the call made_by *)
ClientNode(ident, fn, arg) ==
    [type |-> "Node", grounding |-> ident,
     made_by |-> [fn |-> fn, arg |-> arg, include_indirect |-> FALSE]]

(* the nodes of S as the list of Node objects one client call returns *)
NodeList(S, fn, arg) ==
    LET In(x) == x \in S
        ids == SelectSeq(IdentOrd, In)
    IN [i \in DOMAIN ids |-> ClientNode(ids[i], fn, arg)]

get_targets(st, source, relation) ==
    NodeList({e.target : e \in {x \in st : x.source = source.grounding
                                            /\ x.rel = relation}},
             "get_targets", source.grounding)

get_sources(st, target, relation) ==
    NodeList({e.source : e \in {x \in st : x.target = target.grounding
                                            /\ x.rel = relation}},
             "get_sources", target.grounding)

get_successors(st, node, relations) ==
    NodeList({e.target : e \in {x \in st : x.source = node.grounding
                                            /\ x.rel \in relations}},
             "get_successors", node.grounding)

get_predecessors(st, node, relations) ==
    NodeList({e.source : e \in {x \in st : x.target = node.grounding
                                            /\ x.rel \in relations}},
             "get_predecessors", node.grounding)

has_relation(st, source, target, relation) ==
    \E x \in st : /\ x.source = source.grounding
                  /\ x.target = target.grounding
                  /\ x.rel = relation

(* ---------------------------------------------------------------------- *)
(* client/queries.py                                                       *)
(* ---------------------------------------------------------------------- *)
(* d[key] = value on a dict kept in insertion order *)
dict_set(d, key, value) ==
    IF \E i \in DOMAIN d : d[i].key = key
    THEN [i \in DOMAIN d |->
            IF d[i].key = key THEN [key |-> key, value |-> value] ELSE d[i]]
    ELSE Append(d, [key |-> key, value |-> value])

(* list(d.values()) *)
dict_values(d) == [i \in DOMAIN d |-> d[i].value]

(* for x in xs: d[x.grounding()] = x *)
RECURSIVE dict_set_all(_, _)
dict_set_all(d, xs) ==
    IF Len(xs) = 0 THEN d
    ELSE dict_set_all(dict_set(d, Head(xs).grounding, Head(xs)), Tail(xs))

get_ontology_child_terms(st, term) ==
    get_predecessors(st, term, {"isa", "partof"})

(* the loop over go_term_nodes of get_go_terms_for_gene *)
RECURSIVE go_terms_loop(_, _, _)
go_terms_loop(st, go_terms, go_term_nodes) ==
    IF Len(go_term_nodes) = 0 THEN go_terms
    ELSE LET go_term_node == Head(go_term_nodes)
             go_child_terms ==
                 get_successors(st, PyTuple(go_term_node.grounding), {"isa"})
         IN go_terms_loop(st, dict_set_all(go_terms, go_child_terms),
                          Tail(go_term_nodes))

get_go_terms_for_gene(st, gene, include_indirect) ==
    LET go_term_nodes == get_targets(st, gene, "associated_with")
    IN IF ~include_indirect THEN go_term_nodes
       ELSE dict_values(go_terms_loop(st, dict_set_all(<< >>, go_term_nodes),
                                      go_term_nodes))

(* the loop over [go_term] + go_children of get_genes_for_go_term *)
RECURSIVE gene_nodes_loop(_, _, _)
gene_nodes_loop(st, gene_nodes, terms) ==
    IF Len(terms) = 0 THEN gene_nodes
    ELSE gene_nodes_loop(st,
            dict_set_all(gene_nodes,
                         get_sources(st, Head(terms), "associated_with")),
            Tail(terms))

(* get_genes_for_go_term that never looks at the child terms *)
get_genes_for_go_term_direct(st, go_term, include_indirect) ==
    dict_values(gene_nodes_loop(st, << >>, << go_term >>))

get_genes_for_go_term(st, go_term, include_indirect) ==
    LET go_children == IF include_indirect
                       THEN get_ontology_child_terms(st, go_term) ELSE << >>
    IN dict_values(gene_nodes_loop(st, << >>, << go_term >> \o go_children))

get_pathways_for_gene(st, gene) == get_targets(st, gene, "haspart")

get_genes_for_pathway(st, pathway) == get_targets(st, pathway, "haspart")

is_gene_in_pathway(st, gene, pathway) ==
    has_relation(st, gene, pathway, "haspart")

(* get_ontology_parent_terms following isa edges only *)
get_ontology_parent_terms_isa(st, term) ==
    get_successors(st, term, {"isa"})

get_ontology_parent_terms(st, term) ==
    get_successors(st, term, {"isa", "partof"})

(* any(parent == parent_term.grounding() for parent_term in term_parents) *)
isa_or_partof(st, term, parent) ==
    LET term_parents == get_ontology_parent_terms(st, term)
    IN \E i \in DOMAIN term_parents :
          parent.grounding = term_parents[i].grounding

(* ---------------------------------------------------------------------- *)
(* Queries against a loaded store                                          *)
(* ---------------------------------------------------------------------- *)
DumpIdle ==
    /\ nodes_in = << >>
    /\ rels_in = << >>
    /\ pc = "idle"
    /\ run = "first"
    /\ nodes = << >>
    /\ vnodes = << >>
    /\ vrels = << >>
    /\ rels = << >>
    /\ metadata = << >>
    /\ k = 0
    /\ pos = 0
    /\ counter = << >>
    /\ files = [p \in Paths |-> Absent]
    /\ log = << >>
    /\ ret = [nodes |-> << >>, counter |-> << >>]

QueryInit ==
    /\ store \in Stores
    /\ call = NoCall
    /\ result = << >>

CallGetGoTermsForGene ==
    \E gene \in Genes, include_indirect \in BOOLEAN :
        /\ call' = [fn |-> "get_go_terms_for_gene", arg |-> gene,
                    include_indirect |-> include_indirect]
        /\ result' = get_go_terms_for_gene(store, PyTuple(gene), include_indirect)
        /\ UNCHANGED << store, dump_vars, par_vars, db_vars >>

CallGetGenesForGoTerm ==
    \E go_term \in GoTerms, include_indirect \in BOOLEAN :
        /\ call' = [fn |-> "get_genes_for_go_term", arg |-> go_term,
                    include_indirect |-> include_indirect]
        /\ result' = get_genes_for_go_term(store, PyTuple(go_term), include_indirect)
        /\ UNCHANGED << store, dump_vars, par_vars, db_vars >>

CallGetPathwaysForGene ==
    \E gene \in Genes :
        /\ call' = [fn |-> "get_pathways_for_gene", arg |-> gene,
                    include_indirect |-> FALSE]
        /\ result' = get_pathways_for_gene(store, PyTuple(gene))
        /\ UNCHANGED << store, dump_vars, par_vars, db_vars >>

CallGetGenesForPathway ==
    \E pathway \in Pathways :
        /\ call' = [fn |-> "get_genes_for_pathway", arg |-> pathway,
                    include_indirect |-> FALSE]
        /\ result' = get_genes_for_pathway(store, PyTuple(pathway))
        /\ UNCHANGED << store, dump_vars, par_vars, db_vars >>

CallIsGeneInPathway ==
    \E gene \in Genes, pathway \in Pathways :
        /\ call' = [fn |-> "is_gene_in_pathway", arg |-> << gene, pathway >>,
                    include_indirect |-> FALSE]
        /\ result' = is_gene_in_pathway(store, PyTuple(gene), PyTuple(pathway))
        /\ UNCHANGED << store, dump_vars, par_vars, db_vars >>

CallGetOntologyChildTerms ==
    \E term \in GoTerms :
        /\ call' = [fn |-> "get_ontology_child_terms", arg |-> term,
                    include_indirect |-> FALSE]
        /\ result' = get_ontology_child_terms(store, PyTuple(term))
        /\ UNCHANGED << store, dump_vars, par_vars, db_vars >>

CallGetOntologyParentTerms ==
    \E term \in GoTerms :
        /\ call' = [fn |-> "get_ontology_parent_terms", arg |-> term,
                    include_indirect |-> FALSE]
        /\ result' = get_ontology_parent_terms(store, PyTuple(term))
        /\ UNCHANGED << store, dump_vars, par_vars, db_vars >>

CallIsaOrPartof ==
    \E term \in GoTerms, parent \in GoTerms :
        /\ call' = [fn |-> "isa_or_partof", arg |-> << term, parent >>,
                    include_indirect |-> FALSE]
        /\ result' = isa_or_partof(store, PyTuple(term), PyTuple(parent))
        /\ UNCHANGED << store, dump_vars, par_vars, db_vars >>

QueryNext ==
    \/ CallGetGoTermsForGene
    \/ CallGetGenesForGoTerm
    \/ CallGetPathwaysForGene
    \/ CallGetGenesForPathway
    \/ CallIsGeneInPathway
    \/ CallGetOntologyChildTerms
    \/ CallGetOntologyParentTerms
    \/ CallIsaOrPartof

QInit == DumpIdle /\ QueryInit /\ ParIdle /\ DbIdle

QuerySpec == QInit /\ [][QueryNext]_vars

(* ---------------------------------------------------------------------- *)
(* Properties of the query layer                                           *)
(* ---------------------------------------------------------------------- *)
HasEdge(s, rel, t) == Edge(s, rel, t) \in store

Groundings(ns) == {ns[i].grounding : i \in DOMAIN ns}

OncePerIdentity(ns) ==
    \A i, j \in DOMAIN ns : ns[i].grounding = ns[j].grounding => i = j

(* term is a direct result for gene, and an indirect one *)
DirectFor(gene, term) == HasEdge(gene, "associated_with", term)

IndirectFor(gene, term) ==
    \E d \in GoTerms : DirectFor(gene, d) /\ HasEdge(d, "isa", term)

(* C9: in the result of get_go_terms_for_gene(include_indirect=True) every
   identity appears once, and for an identity that is both a direct and an
   indirect result the node returned is the one get_targets built.
   (Stated as claimed; the code assigns the indirect node over the direct.) *)
C9_DirectWinsOverIndirect ==
    (call.fn = "get_go_terms_for_gene" /\ call.include_indirect) =>
        /\ OncePerIdentity(result)
        /\ \A i \in DOMAIN result :
              (/\ DirectFor(call.arg, result[i].grounding)
               /\ IndirectFor(call.arg, result[i].grounding))
              => result[i].made_by.fn = "get_targets"

(* C10: get_genes_for_go_term returns, one node per identity, exactly the
   nodes with an associated_with edge into go_term and, with
   include_indirect, also those with such an edge into a term that has an
   isa or partof edge into go_term. *)
C10_GenesForGoTermClosure ==
    call.fn = "get_genes_for_go_term" =>
        LET direct == {g \in Genes \cup GoTerms :
                          HasEdge(g, "associated_with", call.arg)}
            children == {c \in Genes \cup GoTerms :
                            \/ HasEdge(c, "isa", call.arg)
                            \/ HasEdge(c, "partof", call.arg)}
            indirect == {g \in Genes \cup GoTerms :
                            \E c \in children : HasEdge(g, "associated_with", c)}
        IN /\ OncePerIdentity(result)
           /\ \A i \in DOMAIN result : result[i].type = "Node"
           /\ Groundings(result) =
                 IF call.include_indirect THEN direct \cup indirect ELSE direct

(* C10 witness: a call with include_indirect that returns a gene found only
   through a child term and a gene found both directly and through a child *)
C10_Witness ==
    /\ call.fn = "get_genes_for_go_term"
    /\ call.include_indirect
    /\ \E g \in Groundings(result) :
          /\ ~HasEdge(g, "associated_with", call.arg)
          /\ \E c \in GoTerms :
                /\ HasEdge(c, "partof", call.arg)
                /\ HasEdge(g, "associated_with", c)

(* C11: p is among get_pathways_for_gene(g) exactly when g is among
   get_genes_for_pathway(p), for every gene g and pathway p.
   (Stated as claimed; both lookups follow haspart edges out of their
   argument.) *)
C11_PathwayLookupsInverse ==
    /\ call.fn = "get_pathways_for_gene" =>
          \A p \in Pathways :
             (p \in Groundings(result)) <=>
             (call.arg \in Groundings(get_genes_for_pathway(store, PyTuple(p))))
    /\ call.fn = "get_genes_for_pathway" =>
          \A g \in Genes :
             (g \in Groundings(result)) <=>
             (call.arg \in Groundings(get_pathways_for_gene(store, PyTuple(g))))

(* C12: is_gene_in_pathway(g, p) is true exactly when g is among
   get_genes_for_pathway(p), and it is false when the only haspart edge
   between the two goes from the gene to the pathway.
   (Stated as claimed; the test looks for the edge from gene to pathway, the
   lookup for edges from pathway to gene.) *)
C12_IsGeneInPathwayAgrees ==
    call.fn = "is_gene_in_pathway" =>
        LET g == call.arg[1]
            p == call.arg[2]
        IN /\ result <=> (g \in Groundings(get_genes_for_pathway(store, PyTuple(p))))
           /\ (HasEdge(g, "haspart", p) /\ ~HasEdge(p, "haspart", g))
                 => ~result

(* C20: isa_or_partof(a, b) holds exactly when b is the grounding of a node
   of get_ontology_parent_terms(a), and exactly when a is the grounding of a
   node of get_ontology_child_terms(b). *)
C20_OntologyLookupsAgree ==
    /\ call.fn = "isa_or_partof" =>
          LET a == call.arg[1]
              b == call.arg[2]
          IN /\ result <=>
                  (b \in Groundings(get_ontology_parent_terms(store, PyTuple(a))))
             /\ result <=>
                  (a \in Groundings(get_ontology_child_terms(store, PyTuple(b))))
             /\ result <=> (HasEdge(a, "isa", b) \/ HasEdge(a, "partof", b))
    /\ call.fn = "get_ontology_parent_terms" =>
          \A b \in GoTerms :
             (b \in Groundings(result)) <=>
             (call.arg \in Groundings(get_ontology_child_terms(store, PyTuple(b))))
    /\ call.fn = "get_ontology_child_terms" =>
          \A a \in GoTerms :
             (a \in Groundings(result)) <=>
             isa_or_partof(store, PyTuple(a), PyTuple(call.arg))

(* C20 witness: isa_or_partof answers true over a partof edge and the store
   also holds an edge in the opposite direction between other terms *)
C20_Witness ==
    /\ call.fn = "isa_or_partof"
    /\ result
    /\ HasEdge(call.arg[1], "partof", call.arg[2])
    /\ ~HasEdge(call.arg[1], "isa", call.arg[2])
    /\ ~HasEdge(call.arg[2], "partof", call.arg[1])
    /\ \E c \in GoTerms : HasEdge(call.arg[2], "isa", c)

(* ---------------------------------------------------------------------- *)
(* sources/indra_db: DbProcessor                                           *)
(* ---------------------------------------------------------------------- *)
MaxDf == 2
MaxBatches == 2
MaxCalls == 3

(* a row of the SIF data frame as __init__ leaves it *)
DfRow(agA_id, agB_id, stmt_type, stmt_hash) ==
    [agA_ns |-> "HGNC", agA_id |-> agA_id, agB_ns |-> "HGNC", agB_id |-> agB_id,
     stmt_type |-> stmt_type, source_counts |-> <<"{}">>,
     evidence_count |-> <<"1">>, belief |-> <<"0.9">>, stmt_hash |-> stmt_hash]

(* rows of sif.pkl: a Complex and its reverse edge share a hash *)
DfRows ==
    { DfRow("1100", "6407", "Complex", 1),
      DfRow("6407", "1100", "Complex", 1),
      DfRow("1100", "6407", "Activation", 2) }

Stmt(matches_hash, text) == [matches_hash |-> matches_hash, json |-> << text >>]

(* the lines of the batch*.json.gz files; hash 3 is in no data frame *)
BatchFiles ==
    { << Stmt(1, "s1") >>,
      << Stmt(2, "s2"), Stmt(3, "s3") >>,
      << >> }

(* DataFrame.drop_duplicates(): the first of equal rows is kept *)
drop_duplicates(rows) ==
    LET First(i) == \A j \in 1..(i - 1) : rows[j] # rows[i]
        idx == SelectSeq([i \in DOMAIN rows |-> i], First)
    IN [i \in DOMAIN idx |-> rows[idx[i]]]

(* DataFrame.drop_duplicates(subset="stmt_hash", keep="first") *)
drop_duplicates_stmt_hash(rows) ==
    LET First(i) == \A j \in 1..(i - 1) : rows[j].stmt_hash # rows[i].stmt_hash
        idx == SelectSeq([i \in DOMAIN rows |-> i], First)
    IN [i \in DOMAIN idx |-> rows[idx[i]]]

DataKeys == { "stmt_hash:long", "source_counts:string", "evidence_count:int",
              "stmt_type:string", "belief:float" }

(* the data dict built from a row of the data frame *)
row_data(values) ==
    [key \in DataKeys |->
        IF key = "stmt_hash:long" THEN << values.stmt_hash >>
        ELSE IF key = "source_counts:string" THEN values.source_counts
        ELSE IF key = "evidence_count:int" THEN values.evidence_count
        ELSE IF key = "stmt_type:string" THEN << values.stmt_type >>
        ELSE values.belief]

(* the else branch of get_relations: one relation per distinct row *)
relations_from_df(df) ==
    LET rows == drop_duplicates(df)
    IN [i \in DOMAIN rows |->
          Relation(rows[i].agA_ns, rows[i].agA_id, rows[i].agB_ns,
                   rows[i].agB_id, indra_rel, row_data(rows[i]))]

(* the relations of the lines of one batch file: a statement whose hash is
   not a key of df_dict raises KeyError and is skipped *)
RECURSIVE relations_from_lines(_, _)
relations_from_lines(df, lines) ==
    IF Len(lines) = 0 THEN << >>
    ELSE LET stmt == Head(lines)
             found == {i \in DOMAIN df : df[i].stmt_hash = stmt.matches_hash}
             rest == relations_from_lines(df, Tail(lines))
         IN IF found = {} THEN rest
            ELSE LET values == df[CHOOSE i \in found : TRUE]
                     data == [key \in DataKeys \cup {"stmt_json:string"} |->
                                IF key = "stmt_json:string" THEN stmt.json
                                ELSE row_data(values)[key]]
                 IN << Relation(values.agA_ns, values.agA_id, values.agB_ns,
                                values.agB_id, indra_rel, data) >> \o rest

(* the loop over the file names that the glob generator still yields *)
RECURSIVE relations_from_batches(_, _)
relations_from_batches(df, fnames) ==
    IF Len(fnames) = 0 THEN << >>
    ELSE relations_from_lines(df, Head(fnames))
         \o relations_from_batches(df, Tail(fnames))

(* what is left of the generator dir_path.glob("batch*.json.gz") after
   taken of its file names have been taken *)
glob_rest(batches, taken) == SubSeq(batches, taken + 1, Len(batches))

(* DbProcessor(dir_path, add_jsons): stmt_fnames is a generator over the
   batch files or None; df is the data frame *)
DbStart ==
    \E add_jsons \in BOOLEAN, df \in SeqsUpTo(DfRows, MaxDf),
       batches \in SeqsUpTo(BatchFiles, MaxBatches) :
        db = [add_jsons |-> add_jsons, df |-> df, batches |-> batches,
              taken |-> 0, calls |-> 0, first |-> << >>, last |-> << >>]

(* one call of get_relations(), taken to its end *)
DbGetRelations ==
    /\ db.calls < MaxCalls
    /\ LET out == IF db.add_jsons
                  THEN relations_from_batches(
                           drop_duplicates_stmt_hash(db.df),
                           glob_rest(db.batches, db.taken))
                  ELSE relations_from_df(db.df)
       IN db' = [db EXCEPT !.calls = @ + 1,
                           !.taken = IF db.add_jsons THEN Len(db.batches) ELSE @,
                           !.first = IF db.calls = 0 THEN out ELSE @,
                           !.last = out]
    /\ UNCHANGED << dump_vars, query_vars, par_vars, fix >>

DbNext == DbGetRelations

DbInit == DumpIdle /\ QueryIdle /\ ParIdle /\ DbStart /\ FixIdle

DbSpec == DbInit /\ [][DbNext]_vars

(* C17: every call of get_relations() on a DbProcessor instance yields the
   sequence of relations that the first call yielded, with and without
   add_jsons.
   (Stated as claimed; with add_jsons the file names come from a generator
   that the first call exhausts.) *)
C17_GetRelationsRepeatable ==
    db.calls >= 1 => db.last = db.first

(* ---------------------------------------------------------------------- *)
(* Concurrent dump() runs                                                  *)
(* ---------------------------------------------------------------------- *)
Procs == { "p1", "p2" }

(* the name attribute of the Processor subclasses *)
Names == { "database", "disgenet" }

(* a path that ignores the name of the processor *)
module_join_flat(name, file) == << "indra", "cogex", file >>

(* pystow.module("indra", "cogex", cls.name).join(name=file) *)
module_join(name, file) == << "indra", "cogex", name, file >>

PathsOf(name) == { module_join(name, f) : f \in Paths }

AllPaths == UNION { PathsOf(n) : n \in Names }

(* the streams of the adapters that run concurrently *)
ParStreams ==
    { [nodes_in |-> << Node("HGNC", "1100", <<"BioEntity">>, [name |-> <<"BRCA1">>]) >>,
       rels_in |-> << >>],
      [nodes_in |-> << Node("MESH", "D001943", <<"BioEntity">>, [score |-> <<"0.5">>]),
                       Node("HGNC", "1100", <<"BioEntity", "Gene">>, NoData) >>,
       rels_in |-> << Relation("HGNC", "1100", "MESH", "D001943", indra_rel,
                               [belief |-> <<"0.9">>]) >>] }

Op(kind, file, off, row) == [kind |-> kind, file |-> file, off |-> off, row |-> row]

Open(file) == Op("open", file, 0, << >>)

Close(file) == Op("close", file, 0, << >>)

(* the writes of rows[from..to] to file, each at its own row offset *)
Writes(file, rows, from, to) ==
    [i \in 1..(to - from + 1) |-> Op("write", file, from + i - 1, rows[from + i - 1])]

(* the body of the zip loop: each row goes to the sample, then to the table *)
SampleWrites(sample, table, rows, from, to) ==
    [j \in 1..(2 * (to - from + 1)) |->
        LET i == from + ((j - 1) \div 2)
        IN Op("write", IF j % 2 = 1 THEN sample ELSE table, i, rows[i])]

(* the file operations of dump(), in program order *)
DumpOps(ns, rs) ==
    LET nt == NodeTableOf(ns)
        et == EdgeTableOf(rs)
        st == SummaryOf(rs)
        cn == Len(SampleOf(nt))
        ce == Len(SampleOf(et))
    IN << Open(nodes_indra_path),
          Op("write", nodes_indra_path, 1, sorted_nodes(ns)),
          Close(nodes_indra_path),
          Open(nodes_path),
          Op("write", nodes_path, 1, nt[1]),
          Open(nodes_sample_path),
          Op("write", nodes_sample_path, 1, nt[1]) >>
       \o SampleWrites(nodes_sample_path, nodes_path, nt, 2, cn)
       \o << Close(nodes_sample_path) >>
       \o Writes(nodes_path, nt, cn + 1, Len(nt))
       \o << Close(nodes_path),
             Open(edges_path),
             Open(edges_sample_path),
             Op("write", edges_sample_path, 1, et[1]),
             Op("write", edges_path, 1, et[1]) >>
       \o SampleWrites(edges_sample_path, edges_path, et, 2, ce)
       \o << Close(edges_sample_path) >>
       \o Writes(edges_path, et, ce + 1, Len(et))
       \o << Close(edges_path),
             Open(edges_summary_path) >>
       \o Writes(edges_summary_path, st, 1, Len(st))
       \o << Close(edges_summary_path) >>

Missing == [exists |-> FALSE, rows |-> << >>]

(* a place of a file that nothing has been written to *)
Hole == << "\\0" >>

(* a write of row by a handle whose position is row off of the file: it
   replaces what is there, or extends the file, leaving a hole if the file
   has been truncated below the position in the meantime *)
write_at(rows, off, row) ==
    [i \in 1..(IF off > Len(rows) THEN off ELSE Len(rows)) |->
        IF i = off THEN row
        ELSE IF i <= Len(rows) THEN rows[i] ELSE Hole]

(* the effect of one file operation of a processor called name *)
ApplyOp(d, name, op) ==
    LET path == module_join(name, op.file)
    IN IF op.kind = "open" THEN [d EXCEPT ![path] = [exists |-> TRUE, rows |-> << >>]]
       ELSE IF op.kind = "write"
       THEN [d EXCEPT ![path] = [exists |-> TRUE,
                                   rows |-> write_at(d[path].rows, op.off, op.row)]]
       ELSE d

(* the operations of p's dump(): its streams determine them *)
OpsOf(p) == procs[p].ops

ParStart ==
    /\ procs \in [Procs -> { [name |-> n,
                              ops |-> DumpOps(st.nodes_in, st.rels_in),
                              ip |-> 0] :
                                n \in Names, st \in ParStreams }]
    /\ disk = [path \in AllPaths |-> Missing]

(* the next operation of p is an open *)
ParOpen(p) ==
    /\ procs[p].ip < Len(OpsOf(p))
    /\ LET op == OpsOf(p)[procs[p].ip + 1]
       IN /\ op.kind = "open"
          /\ disk' = ApplyOp(disk, procs[p].name, op)
    /\ procs' = [procs EXCEPT ![p].ip = @ + 1]
    /\ UNCHANGED << dump_vars, query_vars, db_vars >>

(* the next operation of p writes a row *)
ParWrite(p) ==
    /\ procs[p].ip < Len(OpsOf(p))
    /\ LET op == OpsOf(p)[procs[p].ip + 1]
       IN /\ op.kind = "write"
          /\ disk' = ApplyOp(disk, procs[p].name, op)
    /\ procs' = [procs EXCEPT ![p].ip = @ + 1]
    /\ UNCHANGED << dump_vars, query_vars, db_vars >>

(* the next operation of p closes a file *)
ParClose(p) ==
    /\ procs[p].ip < Len(OpsOf(p))
    /\ LET op == OpsOf(p)[procs[p].ip + 1]
       IN /\ op.kind = "close"
          /\ disk' = ApplyOp(disk, procs[p].name, op)
    /\ procs' = [procs EXCEPT ![p].ip = @ + 1]
    /\ UNCHANGED << dump_vars, query_vars, db_vars >>

ParNext ==
    \/ \E p \in Procs : ParOpen(p)
    \/ \E p \in Procs : ParWrite(p)
    \/ \E p \in Procs : ParClose(p)

ParInit == DumpIdle /\ QueryIdle /\ DbIdle /\ ParStart

ParSpec == ParInit /\ [][ParNext]_vars

(* what a run alone has made of file once the first n of its operations
   ops are done: the rows it has written to it, in order *)
Alone(ops, n, file) ==
    LET done == SubSeq(ops, 1, n)
        IsWrite(o) == o.kind = "write" /\ o.file = file
        w == SelectSeq(done, IsWrite)
    IN [exists |-> \E i \in 1..n : ops[i].kind = "open" /\ ops[i].file = file,
        rows |-> [i \in DOMAIN w |-> w[i].row]]

ParDone(p) == procs[p].ip = Len(OpsOf(p))

(* the files of p's source are those of p running alone up to where p is *)
AsInIsolation(p) ==
    LET ops == OpsOf(p)
    IN \A f \in Paths :
          disk[module_join(procs[p].name, f)] = Alone(ops, procs[p].ip, f)

(* C14: processors of distinct names have no output path in common, and
   whatever the interleaving, the files of a processor that shares its name
   with no other running processor are at every step those of its run in
   isolation; processors of the same name have the same output paths. *)
C14_DisjointPathsByName ==
    /\ \A n1, n2 \in Names :
          /\ n1 # n2 => PathsOf(n1) \cap PathsOf(n2) = {}
          /\ Cardinality(PathsOf(n1)) = Cardinality(Paths)
    /\ \A p \in Procs :
          (\A q \in Procs \ {p} : procs[q].name # procs[p].name)
             => AsInIsolation(p)
    /\ \A p, q \in Procs :
          procs[p].name = procs[q].name =>
             { module_join(procs[p].name, OpsOf(p)[i].file) : i \in DOMAIN OpsOf(p) }
               = { module_join(procs[q].name, OpsOf(q)[i].file) : i \in DOMAIN OpsOf(q) }

(* C14 witness: two dumps of the same name have ended and the node table
   at their common path is the one neither of them writes when it runs
   alone *)
C14_Witness ==
    /\ \A p \in Procs : ParDone(p)
    /\ \A p, q \in Procs : procs[p].name = procs[q].name
    /\ \A p \in Procs :
          disk[module_join(procs[p].name, nodes_path)]
            # Alone(OpsOf(p), Len(OpsOf(p)), nodes_path)

(* ---------------------------------------------------------------------- *)
(* sources/indra_db: fix_id                                                *)
(* ---------------------------------------------------------------------- *)
MaxPieces == 3

GoWidth == 7

EfoPrefixLen == 4

(* the namespaces the claim is about *)
FixNamespaces == { "GO", "EFO", "UP", "UPLOC", "FPLX" }

(* the characters of a namespace *)
chars(db_ns) ==
    IF db_ns = "GO" THEN << "G", "O" >>
    ELSE IF db_ns = "EFO" THEN << "E", "F", "O" >>
    ELSE IF db_ns = "UP" THEN << "U", "P" >>
    ELSE IF db_ns = "UPLOC" THEN << "U", "P", "L", "O", "C" >>
    ELSE << "F", "P", "L", "X" >>

TCF_LEF_dash == << "T", "C", "F", "-", "L", "E", "F" >>

TCF_LEF == << "T", "C", "F", "_", "L", "E", "F" >>

(* the pieces that the ids given to fix_id are made of *)
Pieces ==
    { << "E", "F", "O", ":" >>, << "G", "O", ":" >>, << "S", "L" >>, << "-" >>,
      << "3" >>, << "P" >>, << "1", "2", "3", "4", "5", "6" >> }

RECURSIVE concat(_)
concat(parts) == IF Len(parts) = 0 THEN << >> ELSE Head(parts) \o concat(Tail(parts))

Ids == { concat(parts) : parts \in SeqsUpTo(Pieces, MaxPieces) } \cup { TCF_LEF_dash }

(* str.isnumeric(): not empty and every character numeric *)
isnumeric(id) ==
    /\ Len(id) > 0
    /\ \A i \in DOMAIN id : \E d \in DOMAIN Digit : Digit[d] = id[i]

(* str.startswith(prefix) *)
startswith(id, prefix) ==
    /\ Len(id) >= Len(prefix)
    /\ SubSeq(id, 1, Len(prefix)) = prefix

(* "0" * n: the empty string when n is not positive *)
zeros(n) == [i \in 1..n |-> "0"]

(* db_id.split("-")[0]: what stands before the first "-" *)
split_first(id) ==
    IF \E i \in DOMAIN id : id[i] = "-"
    THEN SubSeq(id, 1, (CHOOSE i \in DOMAIN id :
                            /\ id[i] = "-"
                            /\ \A j \in 1..(i - 1) : id[j] # "-") - 1)
    ELSE id

(* the namespaces, of those of the claim, whose identifiers carry their
   prefix: GO ids read GO:0006915, while EFO, UP, UPLOC and FPLX ids are
   bare (hence the rule of fix_id that strips EFO:) *)
NamespaceEmbedded == { "GO" }

(* indra.databases.identifiers.ensure_prefix_if_needed *)
ensure_prefix_if_needed(db_ns, db_id) ==
    IF db_ns \in NamespaceEmbedded /\ ~startswith(db_id, chars(db_ns) \o << ":" >>)
    THEN chars(db_ns) \o << ":" >> \o db_id
    ELSE db_id

(* fix_id(db_ns, db_id): the rules in the order of the code, each on what
   the rules before it have left *)
fix_id(db_ns, db_id) ==
    LET id1 == IF db_ns = "GO" /\ isnumeric(db_id)
               THEN zeros(GoWidth - Len(db_id)) \o db_id ELSE db_id
        id2 == IF db_ns = "EFO" /\ startswith(id1, << "E", "F", "O", ":" >>)
               THEN SubSeq(id1, EfoPrefixLen + 1, Len(id1)) ELSE id1
        ns3 == IF db_ns = "UP" /\ startswith(id2, << "S", "L" >>)
               THEN "UPLOC" ELSE db_ns
        id4 == IF ns3 = "UP" /\ (\E i \in DOMAIN id2 : id2[i] = "-")
                  /\ ~startswith(id2, << "S", "L", "-" >>)
               THEN split_first(id2) ELSE id2
        id5 == IF ns3 = "FPLX" /\ id4 = TCF_LEF_dash THEN TCF_LEF ELSE id4
    IN << ns3, ensure_prefix_if_needed(ns3, id5) >>

(* a pair of the data frame, before fix_id *)
FixStart ==
    \E db_ns \in FixNamespaces, db_id \in Ids :
        fix = [arg |-> << db_ns, db_id >>, out |-> << db_ns, db_id >>, n |-> 0]

(* fix_id is applied to the pair, then to its own result *)
FixId ==
    /\ fix.n < 2
    /\ fix' = [fix EXCEPT !.out = fix_id(fix.out[1], fix.out[2]),
                              !.n = @ + 1]
    /\ UNCHANGED << dump_vars, query_vars, par_vars, db >>

FixNext == FixId

FixInit == DumpIdle /\ QueryIdle /\ ParIdle /\ db = << >> /\ FixStart

FixSpec == FixInit /\ [][FixNext]_vars

(* C21: fix_id applied to its own result returns it unchanged, for every
   pair of the five namespaces; a numeric GO id of fewer than 7 digits is
   padded with zeros to 7 digits; EFO: is stripped from the front of an EFO
   id; a UP id that starts with SL goes to UPLOC with its id as it was, and
   nothing comes back from UPLOC to UP; any other UP id with a "-" is cut
   at its first "-".
   (Stated as claimed; one EFO: prefix is stripped by each application.) *)
C21_FixIdIdempotent ==
    LET ns == fix.arg[1]
        id == fix.arg[2]
        o == fix_id(ns, id)
    IN /\ fix.n = 2 => fix.out = o
       /\ fix.n >= 1 =>
            /\ (ns = "GO" /\ isnumeric(id) /\ Len(id) < GoWidth) =>
                  LET digits == SubSeq(o[2], Len(o[2]) - GoWidth + 1, Len(o[2]))
                  IN /\ o[1] = "GO"
                     /\ isnumeric(digits)
                     /\ SubSeq(digits, GoWidth - Len(id) + 1, GoWidth) = id
                     /\ \A i \in 1..(GoWidth - Len(id)) : digits[i] = "0"
            /\ (ns = "EFO" /\ startswith(id, << "E", "F", "O", ":" >>)) =>
                  o = << "EFO", SubSeq(id, EfoPrefixLen + 1, Len(id)) >>
            /\ (ns = "UP" /\ startswith(id, << "S", "L" >>)) =>
                  o = << "UPLOC", id >>
            /\ ns = "UPLOC" => o[1] = "UPLOC"
            /\ (ns = "UP" /\ ~startswith(id, << "S", "L" >>)
                  /\ \E i \in DOMAIN id : id[i] = "-") =>
                  /\ o[1] = "UP"
                  /\ startswith(id, o[2] \o << "-" >>)
                  /\ \A i \in DOMAIN o[2] : o[2][i] # "-"

====
